---- MODULE Spec2Model ----
(***************************************************************************)
(* Admin REST services of drealcorse-reports                               *)
(* (src/app/drealcorsereports/views/admin.py).                             *)
(*                                                                         *)
(* The state is the report_models table seen through request.dbsession    *)
(* and the request being served, together with the ACL computed for it     *)
(* and the response sent.                                                  *)
(* One action per view callable of AdminReportModelView; get_layers is a   *)
(* pure filter over two remote documents and has its own specification     *)
(* (SpecLayers).                                                           *)
(***************************************************************************)
EXTENDS Integers, Sequences, FiniteSets, TLC

\* ------------------------------------------------------------------ bounds
\* Timestamps are ticks 1..MaxClock.
MaxClock == 3
\* The remote ACL document holds at most MaxRules rules.
MaxRules == 2
\* The remote layer list holds at most MaxLayers entries.
MaxLayers == 2

\* ---------------------------------------------------------------- universes
\* sec-username header values (authenticated_userid).
Users == {"u1", "u2"}
\* Layer names known to the map server.
Layers == {"L1", "L2"}
\* Report model names.
Names == {"n1", "n2", "n3"}
\* Well-formed UUIDs, as URL segment {id} and as the body's "id".
Ids == {"id1", "id2"}
\* The administrators the map server's ACL document gives each layer:
\* u1 administers L1 alone, u2 administers both layers.
LayerAdmins == {<<"u1", "L1">>, <<"u2", "L1">>, <<"u2", "L2">>}
\* Absent value: no {id} in the matchdict, no "id" key in the body.
None == "None"

ROLE_REPORTS_ADMIN == "ROLE_REPORTS_ADMIN"
ROLE_SUPERUSER == "ROLE_SUPERUSER"
Roles == {ROLE_REPORTS_ADMIN, ROLE_SUPERUSER}
Allow == "Allow"

VARIABLES
    db,      \* session.query(ReportModel): id -> row
    req,     \* the request most recently served
    acl,     \* the ACL __acl__ returned for it (<<>> when it raised)
    resp,    \* the response: status code and the fields named in errors
    layers,  \* remote /rest/layers.json, as the sequence of layer names
    rules,   \* remote layers ACL document, as the sequence of its items
    authorized_layers  \* what get_layers returned

vars == <<db, req, acl, resp, layers, rules, authorized_layers>>
layer_vars == <<layers, rules, authorized_layers>>

\* ----------------------------------------------------------------- requests
\* A JSON body accepted by ReportModelSchema: "id" is optional.
Bodies == [id : Ids \cup {None}, name : Names, layer_id : Layers]
NoBody == [id |-> None, name |-> None, layer_id |-> None]

\* A request: verb, matchdict id, sec-username, sec-roles and the JSON body.
Request(method, id, user, roles, body) ==
    [method |-> method, id |-> id, user |-> user, roles |-> roles,
     body |-> body]

NoRequest == Request("NONE", None, None, {}, NoBody)
NoResponse == [status |-> 0, errors |-> {}]

\* request.effective_principals of the header-driven security policy.
effective_principals(r) ==
    {"system.Everyone", "system.Authenticated", r.user} \cup r.roles

\* drealcorsereports.security.is_user_admin_on_layer: the answer of the map
\* server's ACL document, which no request of this API changes.
is_user_admin_on_layer(r, layer_id) == <<r.user, layer_id>> \in LayerAdmins

\* ------------------------------------------------------------------ __acl__
\* StaticAcl with "delete" left out of the superuser's permissions.
StaticAcl_no_delete ==
    << [action |-> Allow, principal |-> ROLE_REPORTS_ADMIN,
        permissions |-> {"list", "add", "view"}],
       [action |-> Allow, principal |-> ROLE_SUPERUSER,
        permissions |-> {"list", "add", "view", "edit"}] >>

StaticAcl ==
    << [action |-> Allow, principal |-> ROLE_REPORTS_ADMIN,
        permissions |-> {"list", "add", "view"}],
       [action |-> Allow, principal |-> ROLE_SUPERUSER,
        permissions |-> {"list", "add", "view", "edit", "delete"}] >>

\* The condition under which __acl__ asks for the stored record.
AclLooksUpObject(r) ==
    r.id # None /\ ROLE_REPORTS_ADMIN \in effective_principals(r)

\* get_object raises HTTPNotFound.
ObjectMissing(r) == r.id \notin DOMAIN db

\* __acl__ raises HTTPNotFound out of get_object.
AclRaisesNotFound(r) == AclLooksUpObject(r) /\ ObjectMissing(r)

\* The ACE appended for an administrator of the record's layer.
DynamicAce(r) ==
    [action |-> Allow, principal |-> r.user,
     permissions |-> {"edit", "delete"}]

\* GrantsDynamicAce with the record's creator treated as an administrator.
GrantsDynamicAce_creator(r) ==
    /\ r.id # None /\ ROLE_REPORTS_ADMIN \in effective_principals(r)
    /\ r.id \in DOMAIN db
    /\ \/ is_user_admin_on_layer(r, db[r.id].layer_id)
       \/ db[r.id].created_by = r.user

\* GrantsDynamicAce without the test on ROLE_REPORTS_ADMIN.
GrantsDynamicAce_any_role(r) ==
    /\ r.id # None
    /\ r.id \in DOMAIN db
    /\ is_user_admin_on_layer(r, db[r.id].layer_id)

\* Whether __acl__ extends the static list by DynamicAce.
GrantsDynamicAce(r) ==
    /\ AclLooksUpObject(r)
    /\ ~ObjectMissing(r)
    /\ is_user_admin_on_layer(r, db[r.id].layer_id)

__acl__(r) ==
    IF GrantsDynamicAce(r) THEN Append(StaticAcl, DynamicAce(r))
    ELSE StaticAcl

\* Pyramid's ACL authorization over an Allow-only list: some ACE names one
\* of the caller's principals and the permission.
has_permission(permission, r) ==
    LET context_acl == __acl__(r)
        principals == effective_principals(r)
    IN \E i \in 1..Len(context_acl) :
           /\ context_acl[i].action = Allow
           /\ context_acl[i].principal \in principals
           /\ permission \in context_acl[i].permissions

\* ----------------------------------------------------- ReportModelSchema
\* The field-level errors of the schema's validators, each the field's
\* name and its message.
LayerError(layer_id) ==
    [name |-> "layer_id",
     description |-> <<"You're not admin on layer ", layer_id, ".">>]
NameError(name) ==
    [name |-> "name",
     description |-> <<"Report model named ", name, " already exists.">>]

\* Field validators of the schema: the submitted layer must be one the
\* caller administers, the submitted name must not be stored already.
ValidationErrors(r) ==
    (IF is_user_admin_on_layer(r, r.body.layer_id) THEN {}
     ELSE {LayerError(r.body.layer_id)})
    \cup
    (IF \E i \in DOMAIN db : db[i].name = r.body.name
     THEN {NameError(r.body.name)} ELSE {})

\* The row request.validated refers to: the stored row whose primary key
\* is the body's "id", None when the load made a new, transient instance.
ValidatedRow(r) ==
    IF r.body.id \in DOMAIN db THEN r.body.id ELSE None

\* ---------------------------------------------------------------- responses
Respond(status, errors) == resp' = [status |-> status, errors |-> errors]

Forbidden == Respond(403, {}) /\ UNCHANGED db
NotFound == Respond(404, {}) /\ UNCHANGED db
BadRequest(r) == Respond(400, ValidationErrors(r)) /\ UNCHANGED db

\* Requests are served one at a time.
Idle == req = NoRequest

\* The part every view shares: the resource is built as the route's
\* context and __acl__ is evaluated on it.
Serve(r) ==
    /\ req' = r
    /\ acl' = IF AclRaisesNotFound(r) THEN <<>> ELSE __acl__(r)
    /\ UNCHANGED layer_vars

\* datetime.now(timezone.utc). The clock is monotonic and timestamps are
\* kept up to their order: a read returns the tick after the latest
\* timestamp stored.
RECURSIVE MaxOf(_)
MaxOf(S) ==
    IF S = {} THEN 0
    ELSE LET x == CHOOSE y \in S : TRUE
             m == MaxOf(S \ {x})
         IN IF x > m THEN x ELSE m

now ==
    1 + MaxOf({db[i].created_at : i \in DOMAIN db}
              \cup {db[i].updated_at : i \in DOMAIN db})

\* ------------------------------------------------------------------- views
collection_get ==
    /\ Idle
    /\ \E user \in Users, roles \in SUBSET Roles :
           LET r == Request("LIST", None, user, roles, NoBody) IN
           /\ Serve(r)
           /\ IF ~has_permission("list", r) THEN Forbidden
              ELSE Respond(200, {}) /\ UNCHANGED db

\* The row a flush inserts for a new instance: created_by and updated_by
\* are the caller, both timestamps the column default read at t.
NewRow(r, t) ==
    [name |-> r.body.name, layer_id |-> r.body.layer_id,
     created_by |-> r.user, created_at |-> t,
     updated_by |-> r.user, updated_at |-> t]

\* The primary keys a new instance may get: the body's "id" when it has
\* one, a fresh uuid otherwise.
NewIds(r) ==
    IF r.body.id # None THEN {r.body.id} ELSE Ids \ DOMAIN db

\* collection_post on request.validated: the loaded row when the body
\* names a stored one (session.add is then a no-op), a new row otherwise.
PostWrites(r) ==
    IF ValidatedRow(r) # None
    THEN /\ db' = [db EXCEPT ![ValidatedRow(r)] =
                      [@ EXCEPT !.name = r.body.name,
                                !.layer_id = r.body.layer_id,
                                !.created_by = r.user,
                                !.updated_by = r.user]]
    ELSE /\ now <= MaxClock
         /\ \E id \in NewIds(r) : db' = db @@ (id :> NewRow(r, now))

\* collection_post declared without validators.
collection_post_unvalidated ==
    /\ Idle
    /\ \E user \in Users, roles \in SUBSET Roles, body \in Bodies :
           LET r == Request("POST", None, user, roles, body) IN
           /\ Serve(r)
           /\ IF ~has_permission("add", r) THEN Forbidden
              ELSE PostWrites(r) /\ Respond(201, {})

collection_post ==
    /\ Idle
    /\ \E user \in Users, roles \in SUBSET Roles,
          body \in Bodies :
           LET r == Request("POST", None, user, roles, body) IN
           /\ Serve(r)
           /\ IF ~has_permission("add", r) THEN Forbidden
              ELSE IF ValidationErrors(r) # {} THEN BadRequest(r)
              ELSE PostWrites(r) /\ Respond(201, {})

get ==
    /\ Idle
    /\ \E id \in Ids, user \in Users, roles \in SUBSET Roles :
           LET r == Request("GET", id, user, roles, NoBody) IN
           /\ Serve(r)
           /\ IF AclRaisesNotFound(r) THEN NotFound
              ELSE IF ~has_permission("view", r) THEN Forbidden
              ELSE IF ObjectMissing(r) THEN NotFound
              ELSE Respond(200, {}) /\ UNCHANGED db

\* put on request.validated: updated_by and updated_at are set on the row
\* the schema loaded; a transient instance is never added to the session.
PutWrites(r) ==
    IF ValidatedRow(r) # None
    THEN /\ now <= MaxClock
         /\ db' = [db EXCEPT ![ValidatedRow(r)] =
                      [@ EXCEPT !.name = r.body.name,
                                !.layer_id = r.body.layer_id,
                                !.updated_by = r.user,
                                !.updated_at = now]]
    ELSE UNCHANGED db

\* put declared without validators.
put_unvalidated ==
    /\ Idle
    /\ \E id \in Ids, user \in Users, roles \in SUBSET Roles, body \in Bodies :
           LET r == Request("PUT", id, user, roles, body) IN
           /\ Serve(r)
           /\ IF AclRaisesNotFound(r) THEN NotFound
              ELSE IF ~has_permission("edit", r) THEN Forbidden
              ELSE IF ObjectMissing(r) THEN NotFound
              ELSE PutWrites(r) /\ Respond(200, {})

\* put with the body validated before the permission is checked.
put_validates_first ==
    /\ Idle
    /\ \E id \in Ids, user \in Users, roles \in SUBSET Roles, body \in Bodies :
           LET r == Request("PUT", id, user, roles, body) IN
           /\ Serve(r)
           /\ IF ValidationErrors(r) # {} THEN BadRequest(r)
              ELSE IF AclRaisesNotFound(r) THEN NotFound
              ELSE IF ~has_permission("edit", r) THEN Forbidden
              ELSE IF ObjectMissing(r) THEN NotFound
              ELSE PutWrites(r) /\ Respond(200, {})

put ==
    /\ Idle
    /\ \E id \in Ids, user \in Users, roles \in SUBSET Roles, body \in Bodies :
           LET r == Request("PUT", id, user, roles, body) IN
           /\ Serve(r)
           /\ IF AclRaisesNotFound(r) THEN NotFound
              ELSE IF ~has_permission("edit", r) THEN Forbidden
              ELSE IF ValidationErrors(r) # {} THEN BadRequest(r)
              ELSE IF ObjectMissing(r) THEN NotFound
              ELSE PutWrites(r) /\ Respond(200, {})

\* A delete that is not restricted to the object found.
DeleteWrites_all(r) == db' = << >>

\* session.delete(self.get_object())
DeleteWrites(r) ==
    db' = [i \in DOMAIN db \ {r.id} |-> db[i]]

delete ==
    /\ Idle
    /\ \E id \in Ids, user \in Users, roles \in SUBSET Roles :
           LET r == Request("DELETE", id, user, roles, NoBody) IN
           /\ Serve(r)
           /\ IF AclRaisesNotFound(r) THEN NotFound
              ELSE IF ~has_permission("delete", r) THEN Forbidden
              ELSE IF ObjectMissing(r) THEN NotFound
              ELSE DeleteWrites(r) /\ Respond(204, {})

\* ---------------------------------------------------------------- get_layers
\* Keys of the remote ACL document: an access mode and a layer pattern,
\* "*" matching every layer.
RuleKeys == [mode : {"r", "w"}, layer : Layers \cup {"*"}]
\* Values of the remote ACL document: the principals of the rule, "*"
\* standing for anyone.
RulePrincipals ==
    {{"*"}, {ROLE_REPORTS_ADMIN}, {ROLE_SUPERUSER},
     {ROLE_REPORTS_ADMIN, ROLE_SUPERUSER}}
\* layer_rules_json.items(): (key, value) pairs.
RuleItems == [key : RuleKeys, value : RulePrincipals]

\* Rule.parse(key, value)
Rule_parse(item) ==
    [mode |-> item.key.mode, layer |-> item.key.layer,
     principals |-> item.value]

\* Rule.match(layer_name, principals)
Rule_match(rule, layer_name, principals) ==
    /\ rule.layer = "*" \/ rule.layer = layer_name
    /\ "*" \in rule.principals \/ rule.principals \cap principals # {}

\* The inner loop of get_layers: one append for every rule that matches.
RECURSIVE AppendPerRule(_, _, _)
AppendPerRule(layer_name, items, principals) ==
    IF items = << >> THEN << >>
    ELSE (IF Rule_match(Rule_parse(Head(items)), layer_name, principals)
          THEN <<layer_name>> ELSE << >>)
         \o AppendPerRule(layer_name, Tail(items), principals)

\* The outer loop of get_layers, over layers["layers"]["layer"].
RECURSIVE AuthorizedLayers(_, _, _)
AuthorizedLayers(names, items, principals) ==
    IF names = << >> THEN << >>
    ELSE AppendPerRule(Head(names), items, principals)
         \o AuthorizedLayers(Tail(names), items, principals)

\* GET /layers: no permission is required. Either remote call may fail
\* (raise_for_status) and the failure is the request's.
get_layers ==
    /\ Idle
    /\ \E user \in Users, roles \in SUBSET Roles, upstream_ok \in BOOLEAN :
           LET r == Request("LAYERS", None, user, roles, NoBody) IN
           /\ req' = r
           /\ acl' = << >>
           /\ IF upstream_ok
              THEN /\ authorized_layers' =
                         AuthorizedLayers(layers, rules, effective_principals(r))
                   /\ Respond(200, {})
              ELSE /\ authorized_layers' = << >>
                   /\ Respond(500, {})
           /\ UNCHANGED <<db, layers, rules>>

\* The response is sent and the per-request resource is dropped.
end_request ==
    /\ req # NoRequest
    /\ req' = NoRequest
    /\ acl' = << >>
    /\ resp' = NoResponse
    /\ authorized_layers' = << >>
    /\ UNCHANGED <<db, layers, rules>>

Init ==
    /\ db = << >>
    /\ req = NoRequest
    /\ acl = << >>
    /\ resp = NoResponse
    /\ layers = << >>
    /\ rules = << >>
    /\ authorized_layers = << >>

Next ==
    \/ collection_get
    \/ collection_post
    \/ get
    \/ put
    \/ delete
    \/ end_request

Spec == Init /\ [][Next]_vars

\* Sequences over S of length at most n.
SeqsUpTo(S, n) == UNION {[1..k -> S] : k \in 0..n}

\* A dict has each key once.
DistinctKeys(items) ==
    \A i, j \in 1..Len(items) : i # j => items[i].key # items[j].key

\* GET /layers against any remote layer list and any remote ACL document.
InitLayers ==
    /\ db = << >>
    /\ req = NoRequest
    /\ acl = << >>
    /\ resp = NoResponse
    /\ layers \in SeqsUpTo(Layers, MaxLayers)
    /\ rules \in {items \in SeqsUpTo(RuleItems, MaxRules) : DistinctKeys(items)}
    /\ authorized_layers = << >>

NextLayers ==
    \/ get_layers
    \/ end_request

SpecLayers == InitLayers /\ [][NextLayers]_vars

\* ================================================================== claims
\* A step that serves a request: req' is the request, db the table it was
\* served against, db' the table it left, resp' the response.
ServesRequest == req = NoRequest /\ req' # NoRequest

\* The stored record the request's URL names.
Stored(r) == db[r.id]

\* ---------------------------------------------------------------------- C1
\* A reports admin who is no superuser and does not administer the layer
\* of the stored record R the URL names.
C1_Caller(r) ==
    /\ r.id \in DOMAIN db
    /\ ROLE_REPORTS_ADMIN \in r.roles
    /\ ROLE_SUPERUSER \notin r.roles
    /\ ~is_user_admin_on_layer(r, Stored(r).layer_id)

\* C1: for every stored report model R and every caller holding
\* ROLE_REPORTS_ADMIN, not ROLE_SUPERUSER, and not administering R's layer,
\* GET on R answers 200 while PUT and DELETE on R answer 403 and leave the
\* table as it was, whoever created R.
C1_NonAdminViewsButCannotEdit ==
    [][(ServesRequest /\ C1_Caller(req'))
         => /\ req'.method = "GET" => resp'.status = 200
            /\ req'.method \in {"PUT", "DELETE"}
                 => resp'.status = 403 /\ db' = db]_vars

\* A PUT refused to the very principal recorded in R.created_by.
C1_Witness ==
    /\ req.method = "PUT"
    /\ resp.status = 403
    /\ C1_Caller(req)
    /\ Stored(req).created_by = req.user

\* ---------------------------------------------------------------------- C2
\* The ACL computed for the request holds the dynamic edit/delete grant.
HasDynamicAce(a, r) == \E i \in 1..Len(a) : a[i] = DynamicAce(r)

\* C2 as stated: on an item request for a stored record, the dynamic grant
\* is in the ACL if and only if the caller administers the record's layer,
\* whatever roles the caller holds.
C2_GrantIffLayerAdmin ==
    [][(ServesRequest /\ req'.id \in DOMAIN db)
         => (HasDynamicAce(acl', req')
               <=> is_user_admin_on_layer(req', Stored(req').layer_id))]_vars

\* C2 amended: on an item request for a stored record, the dynamic grant is
\* in the ACL if and only if the caller holds ROLE_REPORTS_ADMIN and
\* administers the record's layer.
C2_GrantIffReportsAdminAndLayerAdmin ==
    [][(ServesRequest /\ req'.id \in DOMAIN db)
         => (HasDynamicAce(acl', req')
               <=> /\ ROLE_REPORTS_ADMIN \in req'.roles
                   /\ is_user_admin_on_layer(req', Stored(req').layer_id))]_vars

\* A layer administrator without ROLE_REPORTS_ADMIN was served an item
\* request on a stored record and the ACL holds no dynamic grant.
C2_Witness ==
    /\ req.method = "GET"
    /\ req.id \in DOMAIN db
    /\ ROLE_REPORTS_ADMIN \notin req.roles
    /\ is_user_admin_on_layer(req, Stored(req).layer_id)
    /\ acl = StaticAcl

\* ---------------------------------------------------------------------- C3
\* C3: a caller holding neither role is answered 403 on every report-model
\* operation and the table stays as it was; a caller holding
\* ROLE_REPORTS_ADMIN is never refused list, add or view, and a caller
\* holding ROLE_SUPERUSER is never refused any of the five operations.
C3_StaticGrants ==
    [][(ServesRequest
          /\ req'.method \in {"LIST", "POST", "GET", "PUT", "DELETE"})
         => /\ req'.roles \cap Roles = {}
                 => resp'.status = 403 /\ db' = db
            /\ (ROLE_REPORTS_ADMIN \in req'.roles
                  /\ req'.method \in {"LIST", "POST", "GET"})
                 => resp'.status # 403
            /\ ROLE_SUPERUSER \in req'.roles => resp'.status # 403]_vars

\* A layer administrator holding no role was refused the edit of a stored
\* record of that layer.
C3_Witness ==
    /\ req.method = "PUT"
    /\ req.roles = {}
    /\ resp.status = 403
    /\ req.id \in DOMAIN db
    /\ is_user_admin_on_layer(req, Stored(req).layer_id)
    /\ is_user_admin_on_layer(req, req.body.layer_id)

\* ---------------------------------------------------------------------- C4
\* The request got past the permission check of its view.
PassesPermission(r) ==
    IF r.method = "POST" THEN has_permission("add", r)
    ELSE ~AclRaisesNotFound(r) /\ has_permission("edit", r)

\* The rows the step created or modified.
Written == {id \in DOMAIN db' : id \notin DOMAIN db \/ db'[id] # db[id]}

\* C4: a POST or PUT that passes the permission check and submits a layer
\* the caller does not administer is answered 400 with the layer_id field
\* error and writes nothing; hence every row a request creates or modifies
\* carries a layer the caller of that request administers.
C4_SubmittedLayerAdministered ==
    [][ServesRequest
         => /\ (req'.method \in {"POST", "PUT"}
                  /\ PassesPermission(req')
                  /\ ~is_user_admin_on_layer(req', req'.body.layer_id))
                 => /\ resp'.status = 400
                    /\ LayerError(req'.body.layer_id) \in resp'.errors
                    /\ db' = db
            /\ \A id \in Written :
                 is_user_admin_on_layer(req', db'[id].layer_id)]_vars

\* A PUT by an administrator of the stored record's layer, refused for
\* the submitted layer alone.
C4_Witness ==
    /\ req.method = "PUT"
    /\ req.id \in DOMAIN db
    /\ is_user_admin_on_layer(req, Stored(req).layer_id)
    /\ resp.status = 400
    /\ resp.errors = {LayerError(req.body.layer_id)}

\* ---------------------------------------------------------------------- C5
\* No two stored report models have the same name.
NamesUnique == \A i, j \in DOMAIN db : i # j => db[i].name # db[j].name

\* The POST submits the name of a stored record.
PostsStoredName(r) ==
    r.method = "POST" /\ \E i \in DOMAIN db : db[i].name = r.body.name

\* C5 as stated: no two stored report models ever have the same name, and
\* a POST whose name is that of a stored record is answered 400 with the
\* name field error and stores nothing.
C5_NameUnique ==
    /\ []NamesUnique
    /\ [][(ServesRequest /\ PostsStoredName(req'))
            => /\ resp'.status = 400
               /\ NameError(req'.body.name) \in resp'.errors
               /\ db' = db]_vars

\* C5 amended: no two stored report models ever have the same name, and a
\* POST by a caller granted add whose name is that of a stored record is
\* answered 400 with the name field error and stores nothing.
C5_NameUniqueForPermittedPost ==
    /\ []NamesUnique
    /\ [][(ServesRequest /\ PostsStoredName(req')
             /\ has_permission("add", req'))
            => /\ resp'.status = 400
               /\ NameError(req'.body.name) \in resp'.errors
               /\ db' = db]_vars

\* Two records are stored and a POST of the name of one of them was
\* answered with the name error alone.
C5_Witness ==
    /\ req.method = "POST"
    /\ Cardinality(DOMAIN db) = 2
    /\ resp.status = 400
    /\ resp.errors = {NameError(req.body.name)}

\* ---------------------------------------------------------------------- C6
\* The caller holds one of the two roles the static ACL names.
HoldsRole(r) == r.roles \cap Roles # {}

\* DELETE on a stored record by a caller allowed to delete it removes
\* exactly that record and answers 204.
DeleteRemovesExactlyThat ==
    (req'.method = "DELETE" /\ req'.id \in DOMAIN db
       /\ has_permission("delete", req'))
      => /\ resp'.status = 204
         /\ db' = [i \in DOMAIN db \ {req'.id} |-> db[i]]

\* C6 as stated: DELETE on an id with no record answers 404 and changes
\* nothing; DELETE on a stored id by a caller allowed to delete it answers
\* 204 and removes exactly that record; GET, PUT and DELETE on an id with
\* no record (a deleted one among them) answer 404.
C6_DeleteThenNotFound ==
    [][ServesRequest
         => /\ (req'.method = "DELETE" /\ req'.id \notin DOMAIN db)
                 => resp'.status = 404 /\ db' = db
            /\ DeleteRemovesExactlyThat
            /\ (req'.method \in {"GET", "PUT", "DELETE"}
                  /\ req'.id \notin DOMAIN db)
                 => resp'.status = 404]_vars

\* C6 amended: for a caller holding ROLE_REPORTS_ADMIN or ROLE_SUPERUSER,
\* DELETE on an id with no record answers 404 and changes nothing; DELETE
\* on a stored id by a caller allowed to delete it answers 204 and removes
\* exactly that record; while no record is stored under an id, GET and
\* DELETE on it by such a caller answer 404, and PUT answers 404 too,
\* except 400 to a caller without ROLE_REPORTS_ADMIN whose body fails
\* validation. A caller holding neither role is answered 403.
C6_DeleteThenNotFoundForRoleHolders ==
    [][ServesRequest
         => /\ (req'.method = "DELETE" /\ req'.id \notin DOMAIN db
                  /\ HoldsRole(req'))
                 => resp'.status = 404 /\ db' = db
            /\ DeleteRemovesExactlyThat
            /\ (req'.method \in {"GET", "PUT", "DELETE"}
                  /\ req'.id \notin DOMAIN db)
                 => /\ db' = db
                    /\ resp'.status =
                         IF ~HoldsRole(req') THEN 403
                         ELSE IF /\ req'.method = "PUT"
                                 /\ ROLE_REPORTS_ADMIN \notin req'.roles
                                 /\ ValidationErrors(req') # {}
                              THEN 400
                         ELSE 404]_vars

\* A record was deleted by a layer administrator while another one stays.
C6_Witness ==
    /\ req.method = "DELETE"
    /\ resp.status = 204
    /\ ROLE_SUPERUSER \notin req.roles
    /\ req.id \notin DOMAIN db
    /\ DOMAIN db # {}

\* ---------------------------------------------------------------------- C7
\* C7 as stated: a POST answered 201 leaves created_by and updated_by of
\* the row it wrote at the caller; a PUT answered 200 leaves the record of
\* its URL with updated_by at the caller and a different updated_at, its
\* id, created_by and created_at as they were; and created_by of a stored
\* record never changes, so that it stays the caller of the POST that
\* created it.
C7_AuditFieldsFollowCaller ==
    [][ServesRequest
         => /\ (req'.method = "POST" /\ resp'.status = 201)
                 => /\ Written # {}
                    /\ \A id \in Written :
                         /\ db'[id].created_by = req'.user
                         /\ db'[id].updated_by = req'.user
            /\ (req'.method = "PUT" /\ resp'.status = 200)
                 => /\ req'.id \in DOMAIN db'
                    /\ db'[req'.id].updated_by = req'.user
                    /\ db'[req'.id].updated_at # Stored(req').updated_at
                    /\ db'[req'.id].created_by = Stored(req').created_by
                    /\ db'[req'.id].created_at = Stored(req').created_at
            /\ \A id \in DOMAIN db \cap DOMAIN db' :
                 db'[id].created_by = db[id].created_by]_vars

\* ---------------------------------------------------------------------- C8
\* How often x occurs in seq.
Count(x, seq) == Cardinality({i \in 1..Len(seq) : seq[i] = x})

\* Some rule of the remote ACL document matches the layer for the caller.
SomeRuleMatches(layer_name, r) ==
    \E i \in 1..Len(rules) :
        Rule_match(Rule_parse(rules[i]), layer_name, effective_principals(r))

\* C8 as stated: GET /layers returns a layer name if and only if it is in
\* the remote layer list and some rule matches it for the caller's
\* effective principals, and no more often than the remote list holds it.
C8_LayersFilteredWithoutRepeats ==
    (req.method = "LAYERS" /\ resp.status = 200)
      => \A layer_name \in Layers :
           /\ Count(layer_name, authorized_layers) > 0
                <=> /\ Count(layer_name, layers) > 0
                    /\ SomeRuleMatches(layer_name, req)
           /\ Count(layer_name, authorized_layers)
                <= Count(layer_name, layers)

\* ---------------------------------------------------------------------- C9
\* The 400 answer carries the layer_id field error.
HasLayerError(errors) == \E e \in errors : e.name = "layer_id"

\* C9 as stated: on PUT by a caller holding ROLE_REPORTS_ADMIN, an id with
\* no record answers 404 whatever the body; a stored record whose layer the
\* caller does not administer answers 403, whatever layer is submitted; and
\* the layer_id field error is answered only to a caller permitted to edit
\* the stored record.
C9_PutCheckOrder ==
    [][(ServesRequest /\ req'.method = "PUT"
          /\ ROLE_REPORTS_ADMIN \in req'.roles)
         => /\ req'.id \notin DOMAIN db => resp'.status = 404
            /\ (req'.id \in DOMAIN db
                  /\ ~is_user_admin_on_layer(req', Stored(req').layer_id))
                 => resp'.status = 403
            /\ (resp'.status = 400 /\ HasLayerError(resp'.errors))
                 => /\ req'.id \in DOMAIN db
                    /\ has_permission("edit", req')]_vars

\* C9 amended: as C9, the 403 being answered to a caller who holds
\* ROLE_REPORTS_ADMIN and not ROLE_SUPERUSER.
C9_PutCheckOrderWithoutSuperuser ==
    [][(ServesRequest /\ req'.method = "PUT"
          /\ ROLE_REPORTS_ADMIN \in req'.roles)
         => /\ req'.id \notin DOMAIN db => resp'.status = 404
            /\ (req'.id \in DOMAIN db
                  /\ ROLE_SUPERUSER \notin req'.roles
                  /\ ~is_user_admin_on_layer(req', Stored(req').layer_id))
                 => resp'.status = 403
            /\ (resp'.status = 400 /\ HasLayerError(resp'.errors))
                 => /\ req'.id \in DOMAIN db
                    /\ has_permission("edit", req')]_vars

\* A PUT refused 403 for the stored layer although the submitted layer is
\* one the caller administers and the submitted name is free.
C9_Witness ==
    /\ req.method = "PUT"
    /\ req.roles = {ROLE_REPORTS_ADMIN}
    /\ req.id \in DOMAIN db
    /\ ~is_user_admin_on_layer(req, Stored(req).layer_id)
    /\ is_user_admin_on_layer(req, req.body.layer_id)
    /\ ValidationErrors(req) = {}
    /\ resp.status = 403

\* --------------------------------------------------------------------- C10
\* C10 as stated: a PUT answered 200 whose body carries an id other than
\* the URL's leaves every record but the one the URL names as it was.
C10_PutWritesOnlyUrlRecord ==
    [][(ServesRequest /\ req'.method = "PUT" /\ resp'.status = 200
          /\ req'.body.id # req'.id)
         => \A id \in (DOMAIN db \cup DOMAIN db') \ {req'.id} :
              /\ id \in DOMAIN db
              /\ id \in DOMAIN db'
              /\ db'[id] = db[id]]_vars
====
